---- MODULE Spec2Model ----
(***************************************************************************)
(* freq-rust: word frequency counter (src/src/main.rs).                    *)
(*                                                                         *)
(* A string is a sequence of characters; every character is a one-element  *)
(* TLA+ string.  Byte offsets are kept (Width) because clean_word works    *)
(* with the byte offsets that char_indices() yields.                       *)
(***************************************************************************)
EXTENDS Integers, Sequences, FiniteSets, TLC

\* ------------------------------------------------------------------ bounds
MaxStreamLen == 5
MaxCandLen == 5
MaxCount == 3

\* -------------------------------------------------------------- characters
Apostrophe == "'"
Newline == "\n"
\* a byte that is not valid UTF-8; a line holding it fails to decode
InvalidByte == "0xFF"

LowerLetters == {"a", "b", "i", "é"}
UpperLetters == {"A", "B", "I"}
Digits == {"1"}

\* the characters a decoded line of the main specification is made of
LineChars == {"a", "A", Apostrophe, "é", "1"}
\* the bytes of the input stream of the main specification
StreamChars == LineChars \cup {Newline, InvalidByte}
\* the characters of the candidates the cleaner is checked on
CandChars == {"a", "I", "b", Apostrophe, "é"}

\* char::is_alphabetic
is_alphabetic(c) == c \in LowerLetters \cup UpperLetters

\* char::is_alphanumeric
is_alphanumeric(c) == is_alphabetic(c) \/ c \in Digits

\* char::len_utf8
Width(c) == IF c = "é" THEN 2 ELSE 1

\* Unicode scalar value, the order String keys are compared by
Ord(c) ==
  CASE c = Apostrophe -> 39
    [] c = "1" -> 49
    [] c = "A" -> 65
    [] c = "B" -> 66
    [] c = "I" -> 73
    [] c = "a" -> 97
    [] c = "b" -> 98
    [] c = "i" -> 105
    [] c = "é" -> 233

\* char::to_lowercase: the characters a character lowercases to
char_to_lowercase(c) ==
  CASE c = "A" -> <<"a">>
    [] c = "B" -> <<"b">>
    [] c = "I" -> <<"i">>
    [] OTHER -> <<c>>

\* String::to_lowercase
RECURSIVE to_lowercase(_)
to_lowercase(s) ==
  IF s = <<>> THEN <<>> ELSE char_to_lowercase(Head(s)) \o to_lowercase(Tail(s))

\* str::len, in bytes
RECURSIVE ByteLen(_)
ByteLen(s) == IF s = <<>> THEN 0 ELSE Width(Head(s)) + ByteLen(Tail(s))

\* byte offset of the k-th character (k counted from 1)
Off(s, k) == ByteLen(SubSeq(s, 1, k - 1))

\* str::char_indices().collect(): (byte offset, char) pairs
char_indices(word) == [k \in 1..Len(word) |-> <<Off(word, k), word[k]>>]

\* str::is_char_boundary
is_char_boundary(s, mid) ==
  mid = ByteLen(s) \/ \E k \in 1..Len(s) : Off(s, k) = mid

\* str::split_at: panics (ok = FALSE) off a character boundary
split_at(s, mid) ==
  LET n == Cardinality({k \in 1..Len(s) : Off(s, k) < mid})
  IN  [ok |-> is_char_boundary(s, mid),
       left |-> SubSeq(s, 1, n),
       right |-> SubSeq(s, n + 1, Len(s))]

\* ------------------------------------------------------------- clean_word
None == [tag |-> "None", val |-> <<>>]
Some(w) == [tag |-> "Some", val |-> w]
Panic == [tag |-> "Panic", val |-> <<>>]

\* a one-letter test that forgets to fold the case
one_letter_nofold(c) == c \in {"a", "i"}

\* the one-letter test of clean_word: 'a' or 'i' after to_lowercase().next()
one_letter_ok(c) ==
  ~ (Head(char_to_lowercase(c)) # "a" /\ Head(char_to_lowercase(c)) # "i")

\* byte offset of the last character
last_char_posn(chars) == chars[Len(chars)][1]

\* an off-by-one second-to-last position (third-to-last character)
second_last_char_posn_off(chars) ==
  chars[IF Len(chars) >= 3 THEN Len(chars) - 2 ELSE 1][1]

\* byte offset of the second-to-last character
second_last_char_posn(chars) == chars[Len(chars) - 1][1]

\* the apostrophe check: the for loop over chars, from the k-th character on
RECURSIVE apostrophe_check(_, _, _, _)
apostrophe_check(chars, k, first_char, last_char) ==
  IF k > Len(chars)
  THEN [bad |-> FALSE, first_char |-> first_char, last_char |-> last_char]
  ELSE IF chars[k][2] = Apostrophe
       THEN IF chars[k][1] = 0
            THEN apostrophe_check(chars, k + 1, TRUE, last_char)
            ELSE IF chars[k][1] = second_last_char_posn(chars)
                 THEN apostrophe_check(chars, k + 1, first_char, last_char)
                 ELSE IF chars[k][1] = last_char_posn(chars)
                      THEN apostrophe_check(chars, k + 1, first_char, TRUE)
                      ELSE [bad |-> TRUE, first_char |-> first_char,
                            last_char |-> last_char]
       ELSE apostrophe_check(chars, k + 1, first_char, last_char)

\* "Handling the apostrophe flags": char_indices is indexed with the byte
\* offset last_char_posn (li, counted from 0); indexing past the end of the
\* vector and split_at off a character boundary panic
handle_flags(word, first_char, last_char) ==
  LET idx == char_indices(word)
      li == last_char_posn(idx)
  IN  IF first_char /\ last_char
      THEN IF li >= Len(idx) THEN Panic
           ELSE LET s1 == split_at(word, idx[li + 1][1])
                IN  IF ~ s1.ok THEN Panic
                    ELSE LET s2 == split_at(s1.left, idx[2][1])
                         IN  IF ~ s2.ok THEN Panic
                             ELSE IF ByteLen(s2.right) = 0 THEN None
                                  ELSE Some(s2.right)
      ELSE IF first_char
           THEN LET s2 == split_at(word, idx[2][1])
                IN  IF ~ s2.ok THEN Panic ELSE Some(s2.right)
           ELSE IF last_char
                THEN IF li >= Len(idx) THEN Panic
                     ELSE LET s1 == split_at(word, idx[li + 1][1])
                          IN  IF ~ s1.ok THEN Panic ELSE Some(s1.left)
                ELSE Some(word)

clean_word(word) ==
  IF word = <<>> THEN None
  ELSE LET chars == char_indices(word)
           char_count == Len(chars)
       IN  IF char_count = 1
           THEN IF one_letter_ok(chars[1][2]) THEN Some(word) ELSE None
           ELSE LET f == apostrophe_check(chars, 1, FALSE, FALSE)
                IN  IF f.bad THEN None
                    ELSE handle_flags(word, f.first_char, f.last_char)

\* ------------------------------------------------------------- read_words
\* a split closure that keeps digits inside words ("non-alphanumeric")
IsBoundary_alnum(c) == ~ is_alphanumeric(c) /\ c # Apostrophe

\* the closure handed to splitn: |c| !(c.is_alphabetic()) && c != '\''
IsBoundary(c) == ~ is_alphabetic(c) /\ c # Apostrophe

\* position of the first character the closure matches, 0 when there is none
FirstBoundary(s) ==
  IF \E k \in 1..Len(s) : IsBoundary(s[k])
  THEN CHOOSE k \in 1..Len(s) :
         IsBoundary(s[k]) /\ \A j \in 1..(k - 1) : ~ IsBoundary(s[j])
  ELSE 0

\* str::splitn(n, closure): at most n pieces, the last one is the remainder
RECURSIVE splitn(_, _)
splitn(s, n) ==
  IF n = 0 THEN <<>>
  ELSE IF n = 1 \/ FirstBoundary(s) = 0 THEN <<s>>
       ELSE <<SubSeq(s, 1, FirstBoundary(s) - 1)>>
            \o splitn(SubSeq(s, FirstBoundary(s) + 1, Len(s)), n - 1)

\* the pieces of one line: unclean_line.splitn(unclean_line.len() + 1, ...)
split_line(unclean_line) == splitn(unclean_line, ByteLen(unclean_line) + 1)

\* BufRead::lines: the next line ends before the first newline, or at the end
LineEnd(s) ==
  IF \E k \in 1..Len(s) : s[k] = Newline
  THEN CHOOSE k \in 1..Len(s) :
         s[k] = Newline /\ \A j \in 1..(k - 1) : s[j] # Newline
  ELSE Len(s) + 1

FirstLine(s) == SubSeq(s, 1, LineEnd(s) - 1)
AfterFirstLine(s) == SubSeq(s, LineEnd(s) + 1, Len(s))

\* lines.next() yields Some(Ok(line)) only for a line that is valid UTF-8
Decodes(line) == \A k \in 1..Len(line) : line[k] # InvalidByte

\* --------------------------------------------------------------- CountTable
EmptyTable == [k \in {} |-> 0]

\* an increment that stores 1 whatever the old count: map.insert(word, 1)
increment_word_overwrite(m, w) ==
  [k \in DOMAIN m \cup {w} |-> IF k = w THEN 1 ELSE m[k]]

\* an increment that inserts a fresh word with the count it then adds to
increment_word_insert1(m, w) ==
  LET m0 == IF w \in DOMAIN m THEN m
            ELSE [k \in DOMAIN m \cup {w} |-> IF k = w THEN 1 ELSE m[k]]
  IN  [m0 EXCEPT ![w] = @ + 1]

\* *map.entry(word).or_insert(0) += 1
increment_word(m, w) ==
  LET m0 == IF w \in DOMAIN m THEN m
            ELSE [k \in DOMAIN m \cup {w} |-> IF k = w THEN 0 ELSE m[k]]
  IN  [m0 EXCEPT ![w] = @ + 1]

\* Ord for String: lexicographic by character, a proper prefix comes first
RECURSIVE LexLess(_, _)
LexLess(a, b) ==
  IF b = <<>> THEN FALSE
  ELSE IF a = <<>> THEN TRUE
       ELSE IF Ord(Head(a)) < Ord(Head(b)) THEN TRUE
            ELSE IF Ord(Head(a)) > Ord(Head(b)) THEN FALSE
                 ELSE LexLess(Tail(a), Tail(b))

\* BTreeMap::iter over the keys S of m: (key, count) pairs, keys ascending
RECURSIVE iter(_, _)
iter(m, S) ==
  IF S = {} THEN <<>>
  ELSE LET k == CHOOSE x \in S : \A y \in S \ {x} : LexLess(x, y)
       IN  <<<<k, m[k]>>>> \o iter(m, S \ {k})

\* a comparator that sorts the counts ascending: a.1.cmp(b.1)
comes_before_asc(a, b) == a[2] < b[2]

\* the comparator of main: |a, b| b.1.cmp(a.1) is Less
comes_before(a, b) == b[2] < a[2]

\* one insertion of the stable sort: x goes behind every element it does not
\* strictly precede
RECURSIVE insert_sorted(_, _)
insert_sorted(sorted, x) ==
  IF sorted = <<>> THEN <<x>>
  ELSE IF comes_before(x, Head(sorted)) THEN <<x>> \o sorted
       ELSE <<Head(sorted)>> \o insert_sorted(Tail(sorted), x)

\* slice::sort_by, a stable sort
RECURSIVE sort_by(_)
sort_by(v) ==
  IF v = <<>> THEN <<>>
  ELSE insert_sorted(sort_by(SubSeq(v, 1, Len(v) - 1)), v[Len(v)])

\* ------------------------------------------------------------------- state
VARIABLES
  input,        \* the whole standard input, as it was when the program began
  rest,         \* the part of the input that lines has not read yet
  unclean_line, \* the line being split
  words,        \* the pieces of the line that the for loop has not visited
  word,         \* the piece handed to clean_word
  cleaned,      \* what clean_word returned for it
  map,          \* the CountTable
  sorted_vec,   \* main's sorted vector
  out,          \* the lines printed so far, as (word, count)
  pc            \* where the program is

vars == <<input, rest, unclean_line, words, word, cleaned, map, sorted_vec,
          out, pc>>

SeqsUpTo(S, n) == UNION {[1..k -> S] : k \in 0..n}

Streams == SeqsUpTo(StreamChars, MaxStreamLen)

Init ==
  /\ input \in Streams
  /\ rest = input
  /\ unclean_line = <<>>
  /\ words = <<>>
  /\ word = <<>>
  /\ cleaned = None
  /\ map = EmptyTable
  /\ sorted_vec = <<>>
  /\ out = <<>>
  /\ pc = "lines"

\* while let Some(Ok(line)) = lines.next(): a line that decodes is split
ReadLine ==
  /\ pc = "lines"
  /\ rest # <<>>
  /\ Decodes(FirstLine(rest))
  /\ unclean_line' = FirstLine(rest)
  /\ words' = split_line(FirstLine(rest))
  /\ rest' = AfterFirstLine(rest)
  /\ pc' = "words"
  /\ UNCHANGED <<input, word, cleaned, map, sorted_vec, out>>

\* lines.next() is Some(Err(_)): the pattern does not match, the loop ends
ReadErr ==
  /\ pc = "lines"
  /\ rest # <<>>
  /\ ~ Decodes(FirstLine(rest))
  /\ rest' = AfterFirstLine(rest)
  /\ pc' = "sort"
  /\ UNCHANGED <<input, unclean_line, words, word, cleaned, map, sorted_vec,
                 out>>

\* lines.next() is None: read_words returns
ReadEof ==
  /\ pc = "lines"
  /\ rest = <<>>
  /\ pc' = "sort"
  /\ UNCHANGED <<input, rest, unclean_line, words, word, cleaned, map,
                 sorted_vec, out>>

\* for word in words { match clean_word(word) ... }
CleanWord ==
  /\ pc = "words"
  /\ words # <<>>
  /\ word' = Head(words)
  /\ words' = Tail(words)
  /\ cleaned' = clean_word(Head(words))
  /\ pc' = IF clean_word(Head(words)).tag = "Panic" THEN "panic" ELSE "match"
  /\ UNCHANGED <<input, rest, unclean_line, map, sorted_vec, out>>

\* Some(cleaned_word) => increment_word(map, ...to_lowercase())
MatchSome ==
  /\ pc = "match"
  /\ cleaned.tag = "Some"
  /\ map' = increment_word(map, to_lowercase(cleaned.val))
  /\ pc' = "words"
  /\ UNCHANGED <<input, rest, unclean_line, words, word, cleaned, sorted_vec,
                 out>>

\* None => continue
MatchNone ==
  /\ pc = "match"
  /\ cleaned.tag = "None"
  /\ pc' = "words"
  /\ UNCHANGED <<input, rest, unclean_line, words, word, cleaned, map,
                 sorted_vec, out>>

\* the for loop is over: back to lines.next()
WordsDone ==
  /\ pc = "words"
  /\ words = <<>>
  /\ pc' = "lines"
  /\ UNCHANGED <<input, rest, unclean_line, words, word, cleaned, map,
                 sorted_vec, out>>

\* map.iter().collect() and sorted_vec.sort_by(...)
SortVec ==
  /\ pc = "sort"
  /\ sorted_vec' = sort_by(iter(map, DOMAIN map))
  /\ pc' = "print"
  /\ UNCHANGED <<input, rest, unclean_line, words, word, cleaned, map, out>>

\* println!("{}: {}", word.0, word.1) for the next element of sorted_vec
PrintLine ==
  /\ pc = "print"
  /\ Len(out) < Len(sorted_vec)
  /\ out' = Append(out, sorted_vec[Len(out) + 1])
  /\ UNCHANGED <<input, rest, unclean_line, words, word, cleaned, map,
                 sorted_vec, pc>>

\* the loop over sorted_vec is over: main returns
PrintDone ==
  /\ pc = "print"
  /\ Len(out) = Len(sorted_vec)
  /\ pc' = "done"
  /\ UNCHANGED <<input, rest, unclean_line, words, word, cleaned, map,
                 sorted_vec, out>>

Next ==
  \/ ReadLine
  \/ ReadErr
  \/ ReadEof
  \/ CleanWord
  \/ MatchSome
  \/ MatchNone
  \/ WordsDone
  \/ SortVec
  \/ PrintLine
  \/ PrintDone

Spec == Init /\ [][Next]_vars

\* ------------------------------------------- the cleaner on its own
\* read_words at the for loop of a line that is one candidate: no boundary
\* character in it, so splitn yields the line itself
Cands == SeqsUpTo(CandChars, MaxCandLen) \ {<<>>}

InitClean ==
  /\ input \in Cands
  /\ rest = <<>>
  /\ unclean_line = input
  /\ words = <<input>>
  /\ word = <<>>
  /\ cleaned = None
  /\ map = EmptyTable
  /\ sorted_vec = <<>>
  /\ out = <<>>
  /\ pc = "words"

NextClean ==
  \/ CleanWord
  \/ MatchSome
  \/ MatchNone

SpecClean == InitClean /\ [][NextClean]_vars

\* ------------------------------------------- the table on its own
\* read_words at the match of the last candidate of the last line, with a
\* table that earlier lines have filled; the input itself is not tracked
TableCands == {<<"a">>, <<"B">>, <<"a", "b">>, <<"I", "'", "a">>}
TableWords == {to_lowercase(c) : c \in TableCands}
Tables == UNION {[S -> 1..MaxCount] : S \in SUBSET TableWords}

InitTable ==
  /\ input = <<>>
  /\ rest = <<>>
  /\ unclean_line = <<>>
  /\ words = <<>>
  /\ cleaned \in {None} \cup {Some(c) : c \in TableCands}
  /\ word = cleaned.val
  /\ map \in Tables
  /\ sorted_vec = <<>>
  /\ out = <<>>
  /\ pc = "match"

NextTable ==
  \/ MatchSome
  \/ MatchNone
  \/ WordsDone
  \/ ReadEof
  \/ SortVec
  \/ PrintLine
  \/ PrintDone

SpecTable == InitTable /\ [][NextTable]_vars

\* ------------------------------------------------------------ properties
AfterReadWords == pc \in {"sort", "print", "done"}

Count(s, c) == Cardinality({i \in 1..Len(s) : s[i] = c})

\* a lowercase run of letters with at most one apostrophe, which then stands
\* second-to-last between two letters
WellFormedKey(k) ==
  /\ k # <<>>
  /\ \A i \in 1..Len(k) : k[i] \in LowerLetters \/ k[i] = Apostrophe
  /\ Count(k, Apostrophe) <= 1
  /\ \A i \in 1..Len(k) :
       k[i] = Apostrophe =>
         /\ i = Len(k) - 1
         /\ i > 1
         /\ k[i - 1] \in LowerLetters
         /\ k[i + 1] \in LowerLetters

\* C1: every key of the frequency table is lowercase, made of letters and at
\* most one apostrophe, and that apostrophe is second-to-last with a letter
\* on both sides; no key begins or ends with an apostrophe.
C1_KeysWellFormed == \A k \in DOMAIN map : WellFormedKey(k)

NoEndApostrophe(w) == w[1] # Apostrophe /\ w[Len(w)] # Apostrophe

\* w without an apostrophe at its first position and at its last position
StripEnds(w) ==
  SubSeq(w, IF w[1] = Apostrophe THEN 2 ELSE 1,
            IF w[Len(w)] = Apostrophe THEN Len(w) - 1 ELSE Len(w))

C3_OutputOrder ==
  pc = "done" =>
    /\ Len(out) = Cardinality(DOMAIN map)
    /\ \A k \in DOMAIN map : \E i \in 1..Len(out) : out[i] = <<k, map[k]>>
    /\ \A i \in 1..Len(out) : \A j \in (i + 1)..Len(out) :
         \/ out[i][2] > out[j][2]
         \/ out[i][2] = out[j][2] /\ LexLess(out[i][1], out[j][1])

C3_Witness ==
  /\ pc = "done"
  /\ Len(out) >= 3
  /\ \E i \in 1..Len(out) : \E j \in (i + 1)..Len(out) :
       out[i][2] = out[j][2]
  /\ \E i \in 1..Len(out) : \E j \in (i + 1)..Len(out) :
       out[i][2] > out[j][2] /\ LexLess(out[j][1], out[i][1])

\* C4: incrementing w adds 1 to the count of w when w is a key and inserts w
\* with count 1 otherwise; every other key keeps its count and no key goes.
C4_IncrementFrame ==
  [][(pc = "match" /\ cleaned.tag = "Some") =>
       LET w == to_lowercase(cleaned.val)
       IN  /\ DOMAIN map' = DOMAIN map \cup {w}
           /\ map'[w] = IF w \in DOMAIN map THEN map[w] + 1 ELSE 1
           /\ \A k \in DOMAIN map \ {w} : map'[k] = map[k]]_vars

C4_Witness ==
  /\ pc = "words"
  /\ cleaned.tag = "Some"
  /\ map[to_lowercase(cleaned.val)] >= 2
  /\ Cardinality(DOMAIN map) >= 3

\* the candidates of a text: its maximal runs of letters and apostrophes
WordChar(c) == c \in LowerLetters \cup UpperLetters \cup {Apostrophe}

IsRun(s, j, k) ==
  /\ j <= k
  /\ \A i \in j..k : WordChar(s[i])
  /\ j = 1 \/ ~ WordChar(s[j - 1])
  /\ k = Len(s) \/ ~ WordChar(s[k + 1])

Runs(s) == {r \in (1..Len(s)) \X (1..Len(s)) : IsRun(s, r[1], r[2])}

Accepted(s, r) == clean_word(SubSeq(s, r[1], r[2])).tag = "Some"

KeyOf(s, r) == to_lowercase(clean_word(SubSeq(s, r[1], r[2])).val)

\* the table a text stands for: every accepted candidate counted under its
\* cleaned, lowercased form
TableOf(s) ==
  [w \in {KeyOf(s, r) : r \in {q \in Runs(s) : Accepted(s, q)}} |->
     Cardinality({r \in Runs(s) : Accepted(s, r) /\ KeyOf(s, r) = w})]

\* the input without its lines that fail to decode
RECURSIVE RemoveBadLines(_)
RemoveBadLines(s) ==
  IF s = <<>> THEN <<>>
  ELSE IF Decodes(FirstLine(s))
       THEN SubSeq(s, 1, IF LineEnd(s) > Len(s) THEN Len(s) ELSE LineEnd(s))
            \o RemoveBadLines(AfterFirstLine(s))
       ELSE RemoveBadLines(AfterFirstLine(s))

\* C5: a line that fails to decode is skipped: the final table is the table
\* of the same input with the malformed lines removed.
C5_BadLineSkipped == AfterReadWords => map = TableOf(RemoveBadLines(input))

\* C6: after read_words has processed decodable lines, the keys are the
\* lowercased cleaned words of the accepted candidates and each count is the
\* number of candidates with that cleaned, lowercased form.
C6_TableCounts == (AfterReadWords /\ Decodes(input)) => map = TableOf(input)

C6_Witness ==
  /\ AfterReadWords
  /\ Decodes(input)
  /\ \E k \in DOMAIN map : map[k] >= 2
  /\ \E r \in Runs(input) : ~ Accepted(input, r)
  /\ \E r \in Runs(input) :
       Accepted(input, r) /\ KeyOf(input, r) # SubSeq(input, r[1], r[2])

RefClean(c) ==
  LET n == Len(c)
  IN  IF \E i \in 1..n : c[i] = Apostrophe /\ i \notin {1, n - 1, n}
      THEN None
      ELSE LET a == IF c[1] = Apostrophe THEN 2 ELSE 1
               b == IF c[n] = Apostrophe THEN n - 1 ELSE n
           IN  IF a > b THEN None ELSE Some(SubSeq(c, a, b))

\* C8: for a candidate of two or more characters clean_word returns what the
\* reference rule gives: a rejection for an apostrophe at a position other
\* than first, second-to-last or last, else the candidate without its
\* leading and trailing apostrophe, rejected when nothing is left.
C8_MatchesReference ==
  (pc \in {"match", "panic"} /\ Len(word) >= 2) => cleaned = RefClean(word)

\* the nonempty pieces, in order
RECURSIVE NonEmpty(_)
NonEmpty(ws) ==
  IF ws = <<>> THEN <<>>
  ELSE IF Head(ws) = <<>> THEN NonEmpty(Tail(ws))
       ELSE <<Head(ws)>> \o NonEmpty(Tail(ws))

\* the p-th maximal run of s, by position
RunAt(s, p) ==
  CHOOSE r \in Runs(s) : Cardinality({q \in Runs(s) : q[1] < r[1]}) = p - 1

\* the pieces splitn has just produced for unclean_line are its maximal runs
PiecesAreRuns ==
  LET ws == NonEmpty(words')
  IN  /\ Len(ws) = Cardinality(Runs(unclean_line'))
      /\ \A p \in 1..Len(ws) :
           ws[p] = SubSeq(unclean_line', RunAt(unclean_line', p)[1],
                          RunAt(unclean_line', p)[2])

SplitStep == pc = "lines" /\ pc' = "words"

EmptyPieceStep == pc = "words" /\ words # <<>> /\ Head(words) = <<>>

C10_NeverAborts == pc # "panic"

====
